---- MODULE Spec2Model ----
(***************************************************************************)
(* Seat allocation of the IITB seat mapping app (src/app.py).              *)
(*                                                                         *)
(* The state machine follows one call of allocate_seats: the roster is     *)
(* read and its headers resolved, the pool is ordered, the two seat        *)
(* inventories are loaded and normalised, every iteration of the nested    *)
(* loops over room_constraints is one step, and the final step             *)
(* concatenates, sorts and returns the table (or returns None).            *)
(*                                                                         *)
(* Texts whose characters the code inspects (headers, colours, parities)   *)
(* are sequences of one-character strings, so that str.strip() and         *)
(* str.lower() are computed and not assumed.                               *)
(***************************************************************************)
EXTENDS Integers, Sequences, FiniteSets, TLC

----------------------------------------------------------------------------
(* Bounds of the model. *)

MaxStudents == 2

MaxSeats == 2

----------------------------------------------------------------------------
(* Text: str.strip(), str.lower(), str(int), text comparison. *)

UpperCase ==
  <<"A","B","C","D","E","F","G","H","I","J","K","L","M",
    "N","O","P","Q","R","S","T","U","V","W","X","Y","Z">>

LowerCase ==
  <<"a","b","c","d","e","f","g","h","i","j","k","l","m",
    "n","o","p","q","r","s","t","u","v","w","x","y","z">>

Digits == <<"0","1","2","3","4","5","6","7","8","9">>

(* A function on 1..n written out as the sequence it is. *)
List(f) == f \o <<>>

IsSpace(c) == c = " "

LowerChar(c) ==
  IF \E i \in 1..Len(UpperCase) : UpperCase[i] = c
  THEN LowerCase[CHOOSE i \in 1..Len(UpperCase) : UpperCase[i] = c]
  ELSE c

Lower(t) == List([i \in 1..Len(t) |-> LowerChar(t[i])])

Strip(t) ==
  LET keep == {i \in 1..Len(t) : ~IsSpace(t[i])}
  IN  IF keep = {} THEN <<>>
      ELSE LET lo == CHOOSE i \in keep : \A j \in keep : i <= j
               hi == CHOOSE i \in keep : \A j \in keep : j <= i
           IN  SubSeq(t, lo, hi)

(* col.strip().lower(), .str.strip().str.lower() *)
StripLower(t) == Lower(Strip(t))

RECURSIVE Str(_)
Str(n) == IF n < 10 THEN <<Digits[n + 1]>>
          ELSE Append(Str(n \div 10), Digits[(n % 10) + 1])

(* Code point order restricted to the characters of str(int). *)
Ord(c) == CHOOSE i \in 1..Len(Digits) : Digits[i] = c

RECURSIVE TextLess(_, _)
TextLess(a, b) ==
  IF b = <<>> THEN FALSE
  ELSE IF a = <<>> THEN TRUE
  ELSE IF Ord(Head(a)) # Ord(Head(b)) THEN Ord(Head(a)) < Ord(Head(b))
  ELSE TextLess(Tail(a), Tail(b))

TextLeq(a, b) == a = b \/ TextLess(a, b)

----------------------------------------------------------------------------
(* Sequences. *)

Range(s) == {s[i] : i \in 1..Len(s)}

Min(a, b) == IF a <= b THEN a ELSE b

SeqsUpTo(S, n) == UNION {{List(f) : f \in [1..k -> S]} : k \in 0..n}

RECURSIVE Flatten(_)
Flatten(ss) == IF ss = <<>> THEN <<>> ELSE Head(ss) \o Flatten(Tail(ss))

(* DataFrame.iloc[:n] and DataFrame.iloc[n:] *)
ILocHead(df, n) == SubSeq(df, 1, Min(n, Len(df)))

ILocTail(df, n) == SubSeq(df, Min(n, Len(df)) + 1, Len(df))

----------------------------------------------------------------------------
(* The texts of the model. *)

T_RollNo == <<"R","o","l","l"," ","N","o">>

T_Name == <<"N","a","m","e">>

T_roll_no == <<"r","o","l","l"," ","n","o">>

T_roll == <<"r","o","l","l">>

T_name == <<"n","a","m","e">>

T_Yellow == <<"Y","e","l","l","o","w">>

T_Blue == <<"B","l","u","e">>

T_Odd == <<"O","d","d">>

T_Even == <<"E","v","e","n">>

(* Headers a roster may carry in its roll-number and in its name column. *)
RollHeaders ==
  { T_RollNo,
    <<"R","o","l","l">>,
    <<" ","R","O","L","L"," ","N","O">>,
    <<"I","d">> }

NameHeaders ==
  { T_Name,
    <<"n","A","m","E"," ">>,
    <<"N","m">> }

RollNos == {2, 10}

Names == <<"Asha", "Bilal", "Chen", "Divya", "Esha">>

----------------------------------------------------------------------------
(* main: the rooms offered and the constraints it builds (lines 148-175). *)

rooms == {"LA 001", "LC 001", "CC 101", "KR 125"}

(* room.startswith(("LA", "LC", "LH")) and room.startswith(("CC", "KR")),  *)
(* tabulated over the rooms of the model.                                  *)
Prefix ==
  [r \in rooms |->
     CASE r = "LA 001" -> "LA"
       [] r = "LC 001" -> "LC"
       [] r = "CC 101" -> "CC"
       [] r = "KR 125" -> "KR"]

IsColumnRoom(room) == Prefix[room] \in {"LA", "LC", "LH"}

IsBlockRoom(room) == Prefix[room] \in {"CC", "KR"}

(* A dict is the sequence of its items in insertion order. *)
Item(k, v) == [key |-> k, values |-> v]

MainColumnConstraints(left_colors, middle_colors, right_colors) ==
  << Item("Left", left_colors),
     Item("Middle", middle_colors),
     Item("Right", right_colors) >>

MainBlockConstraints(parity) == << Item("Parity", <<parity>>) >>

Entry(room, constraints) == [room |-> room, constraints |-> constraints]

----------------------------------------------------------------------------
(* allocate_seats: reading the roster (lines 33-53). *)

(* {col.strip().lower(): col for col in columns}: a later column with the  *)
(* same normalised header replaces an earlier one.                         *)
ColMap(columns) ==
  [k \in {StripLower(columns[i]) : i \in 1..Len(columns)} |->
     LET at == {i \in 1..Len(columns) : StripLower(columns[i]) = k}
     IN  columns[CHOOSE i \in at : \A j \in at : j <= i]]

(* DataFrame.rename(columns=mapping) *)
Rename(columns, mapping) ==
  List([i \in 1..Len(columns) |->
          IF columns[i] \in DOMAIN mapping THEN mapping[columns[i]] ELSE columns[i]])

(* The "roll" synonym forgotten. *)
StandardRollColumnsRollNoOnly(col_map) ==
  IF T_roll_no \in DOMAIN col_map THEN {col_map[T_roll_no]} ELSE {}

StandardRollColumns(col_map) ==
  IF T_roll_no \in DOMAIN col_map THEN {col_map[T_roll_no]}
  ELSE IF T_roll \in DOMAIN col_map THEN {col_map[T_roll]}
  ELSE {}

StandardNameColumns(col_map) ==
  IF T_name \in DOMAIN col_map THEN {col_map[T_name]} ELSE {}

StandardizedColumns(col_map) ==
  [c \in StandardRollColumns(col_map) \cup StandardNameColumns(col_map) |->
     IF c \in StandardRollColumns(col_map) THEN T_RollNo ELSE T_Name]

(* The roster's columns after both renames. *)
RenamedColumns(columns) ==
  LET col_map == ColMap(columns)
      cleaned == Rename(columns, col_map)
      standardized_columns == StandardizedColumns(col_map)
  IN  Rename(cleaned, standardized_columns)

required_columns == <<T_RollNo, T_Name>>

HasRequiredColumns(columns) ==
  \A r \in 1..Len(required_columns) : required_columns[r] \in Range(columns)

ColumnIndex(columns, name) == CHOOSE i \in 1..Len(columns) : columns[i] = name

(* The rows of the roster under the renamed columns; index is the          *)
(* DataFrame's row label.                                                  *)
ReadRoster(file) ==
  LET columns == RenamedColumns(file.columns)
      roll_no == ColumnIndex(columns, T_RollNo)
      name == ColumnIndex(columns, T_Name)
  IN  List([r \in 1..Len(file.rows) |->
              [index  |-> r - 1,
               RollNo |-> file.rows[r][roll_no],
               Name   |-> file.rows[r][name]]])

----------------------------------------------------------------------------
(* allocate_seats: the order of the pool (lines 55-59). *)

RandomOrder == "Random Order (Shuffle Students)"

SequentialOrder == "Sequential Order (Keep Student Order)"

(* The row order df.sample(frac=1, random_state=42) draws for n rows:      *)
(* RandomState(42).permutation(n), one-based.                              *)
SamplePerm(n) ==
  CASE n = 0 -> <<>>
    [] n = 1 -> <<1>>
    [] n = 2 -> <<2, 1>>
    [] n = 3 -> <<1, 2, 3>>
    [] n = 4 -> <<2, 4, 1, 3>>
    [] n = 5 -> <<2, 5, 3, 1, 4>>

ResetIndex(df) == List([r \in 1..Len(df) |-> [df[r] EXCEPT !.index = r - 1]])

Sample(df) == List([r \in 1..Len(df) |-> df[SamplePerm(Len(df))[r]]])

OrderedStudents(df, mode) ==
  IF mode = RandomOrder THEN ResetIndex(Sample(df)) ELSE ResetIndex(df)

----------------------------------------------------------------------------
(* allocate_seats: the seat inventories and the queries (lines 61-111). *)

NormalizeColor(df) ==
  List([r \in 1..Len(df) |-> [df[r] EXCEPT !.Color = StripLower(@)]])

NormalizeParity(df) ==
  List([r \in 1..Len(df) |-> [df[r] EXCEPT !.Parity = StripLower(@)]])

(* The position left out of the mask. *)
ColumnMaskAnyPosition(seat, room, position, color) ==
  /\ seat.RoomNumber = room
  /\ seat.Color = color

ColumnMask(seat, room, position, color) ==
  /\ seat.RoomNumber = room
  /\ seat.Position = position
  /\ seat.Color = color

ValidColumnSeats(df, room, position, color) ==
  LET wanted == StripLower(color)
      Keep(seat) == ColumnMask(seat, room, position, wanted)
  IN  SelectSeq(df, Keep)

ParityList(values) == List([p \in 1..Len(values) |-> StripLower(values[p])])

BlockMask(seat, room, parity_list) ==
  /\ seat.RoomNumber = room
  /\ seat.Parity \in Range(parity_list)

ValidBlockSeats(df, room, parity_list) ==
  LET Keep(seat) == BlockMask(seat, room, parity_list)
  IN  SelectSeq(df, Keep)

(* constraints.get("Parity", []) *)
GetParity(constraints) ==
  IF \E c \in 1..Len(constraints) : constraints[c].key = "Parity"
  THEN constraints[CHOOSE c \in 1..Len(constraints) : constraints[c].key = "Parity"].values
  ELSE <<>>

NumSeats(valid_seats, remaining) == Min(Len(valid_seats), Len(remaining))

(* The students taken from the back of the pool. *)
AssignedStudentsFromBack(remaining, valid_seats, room, num_seats) ==
  LET assigned_students == ILocTail(remaining, Len(remaining) - num_seats)
      seat_numbers == ILocHead(valid_seats, num_seats)
  IN  List([s \in 1..Len(assigned_students) |->
              [index      |-> assigned_students[s].index,
               RollNo     |-> assigned_students[s].RollNo,
               Name       |-> assigned_students[s].Name,
               SeatNumber |-> seat_numbers[s].SeatNumber,
               Room       |-> room,
               Signature  |-> ""]])

(* remaining_students.iloc[:num_seats] with the three columns added. *)
AssignedStudents(remaining, valid_seats, room, num_seats) ==
  LET assigned_students == ILocHead(remaining, num_seats)
      seat_numbers == ILocHead(valid_seats, num_seats)
  IN  List([s \in 1..Len(assigned_students) |->
              [index      |-> assigned_students[s].index,
               RollNo     |-> assigned_students[s].RollNo,
               Name       |-> assigned_students[s].Name,
               SeatNumber |-> seat_numbers[s].SeatNumber,
               Room       |-> room,
               Signature  |-> ""]])

(* One student too many dropped from the pool. *)
RemainingAfterOneMore(remaining, num_seats) == ILocTail(remaining, num_seats + 1)

RemainingAfter(remaining, num_seats) == ILocTail(remaining, num_seats)

----------------------------------------------------------------------------
(* allocate_seats: the iterations of the nested loops (lines 70-73, 93-94).*)

(* The items taken in the order Left, Middle, Right. *)
ConstraintItemsCanonical(constraints) ==
  LET IsLeft(item) == item.key = "Left"
      IsMiddle(item) == item.key = "Middle"
      IsRight(item) == item.key = "Right"
  IN  SelectSeq(constraints, IsLeft) \o SelectSeq(constraints, IsMiddle)
        \o SelectSeq(constraints, IsRight)

(* constraints.items(): the items in the order of the caller's dict. *)
ConstraintItems(constraints) == constraints

ColumnIteration(room, position, color) ==
  [kind |-> "column", room |-> room, position |-> position,
   color |-> color, parity_list |-> <<>>]

BlockIteration(room, parity_list) ==
  [kind |-> "block", room |-> room, position |-> "Parity",
   color |-> <<>>, parity_list |-> parity_list]

ColumnIterations(room, constraints) ==
  LET items == ConstraintItems(constraints)
  IN  Flatten(List([p \in 1..Len(items) |->
                      List([c \in 1..Len(items[p].values) |->
                              ColumnIteration(room, items[p].key,
                                              items[p].values[c])])]))

RoomIterations(entry) ==
  IF IsColumnRoom(entry.room)
  THEN ColumnIterations(entry.room, entry.constraints)
  ELSE IF IsBlockRoom(entry.room)
  THEN <<BlockIteration(entry.room, ParityList(GetParity(entry.constraints)))>>
  ELSE <<>>

(* Every pass through a loop body that queries the seats, in order. *)
Iterations(constraints_by_room) ==
  Flatten(List([e \in 1..Len(constraints_by_room) |->
                  RoomIterations(constraints_by_room[e])]))

----------------------------------------------------------------------------
(* allocate_seats: the final table (lines 113-120). *)

(* pd.concat(..., ignore_index=True)[[the five columns]] *)
Concat(batches) ==
  LET all == Flatten(batches)
  IN  List([r \in 1..Len(all) |->
              [RollNo     |-> all[r].RollNo,
               Name       |-> all[r].Name,
               SeatNumber |-> all[r].SeatNumber,
               Room       |-> all[r].Room,
               Signature  |-> all[r].Signature]])

(* df_final["Roll No"].astype(str) *)
AsTypeStr(df) == List([r \in 1..Len(df) |-> [df[r] EXCEPT !.RollNo = Str(@)]])

(* The order sort_values compares two rows' Roll No in: as text. *)
RollNoLeq(a, b) == TextLeq(a.RollNo, b.RollNo)

IsSortedByRollNo(df) ==
  \A r \in 1..Len(df) - 1 : RollNoLeq(df[r], df[r + 1])

Orderings(n) ==
  {p \in [1..n -> 1..n] : \A a, b \in 1..n : p[a] = p[b] => a = b}

(* The sort left out. *)
SortValuesUnsorted(df) == {df}

(* sort_values("Roll No"): the default sort is not stable, so rows with    *)
(* equal Roll No may come out in any order.                                *)
SortValues(df) ==
  {t \in {List([r \in 1..Len(df) |-> df[p[r]]]) : p \in Orderings(Len(df))} :
     IsSortedByRollNo(t)}

----------------------------------------------------------------------------
(* The inputs of the model. *)

CanonicalColumns == <<T_RollNo, T_Name>>

(* A roster file of two columns, the name column first when swapped. *)
StudentFile(roll_header, name_header, swapped, rolls) ==
  [columns |-> IF swapped THEN <<name_header, roll_header>>
               ELSE <<roll_header, name_header>>,
   rows    |-> List([r \in 1..Len(rolls) |->
                       IF swapped THEN <<Names[r], rolls[r]>>
                       ELSE <<rolls[r], Names[r]>>])]

Rosters == SeqsUpTo(RollNos, MaxStudents)

ColumnSeat(room, position, color) ==
  [table |-> "la_lc_lh", RoomNumber |-> room, Position |-> position,
   Color |-> color, Parity |-> <<>>]

BlockSeat(room, parity) ==
  [table |-> "cc_kr", RoomNumber |-> room, Position |-> "",
   Color |-> <<>>, Parity |-> parity]

SeatKinds ==
  { ColumnSeat("LA 001", "Left", <<" ","Y","e","l","l","o","w">>),
    ColumnSeat("LA 001", "Right", <<"y","e","l","l","o","w">>),
    ColumnSeat("LA 001", "Left", <<"B","L","U","E">>),
    ColumnSeat("LC 001", "Left", <<"y","e","l","l","o","w">>),
    BlockSeat("CC 101", <<"O","d","d"," ">>),
    BlockSeat("CC 101", <<"e","v","e","n">>) }

(* The seats of both files; a seat's number is its place among them. *)
SeatLists == SeqsUpTo(SeatKinds, MaxSeats)

Numbered(seats) ==
  List([n \in 1..Len(seats) |-> [kind |-> seats[n], SeatNumber |-> n]])

ColumnFile(seats) ==
  LET IsColumn(s) == s.kind.table = "la_lc_lh"
      rows == SelectSeq(Numbered(seats), IsColumn)
  IN  List([r \in 1..Len(rows) |->
              [RoomNumber |-> rows[r].kind.RoomNumber,
               Position   |-> rows[r].kind.Position,
               Color      |-> rows[r].kind.Color,
               SeatNumber |-> rows[r].SeatNumber]])

BlockFile(seats) ==
  LET IsBlock(s) == s.kind.table = "cc_kr"
      rows == SelectSeq(Numbered(seats), IsBlock)
  IN  List([r \in 1..Len(rows) |->
              [RoomNumber |-> rows[r].kind.RoomNumber,
               Parity     |-> rows[r].kind.Parity,
               SeatNumber |-> rows[r].SeatNumber]])

(* Constraints of a column room: two as main builds them, two as a direct  *)
(* caller of allocate_seats may pass them.                                 *)
ColumnConstraints ==
  { MainColumnConstraints(<<T_Yellow>>, <<>>, <<T_Yellow>>),
    MainColumnConstraints(<<T_Blue, T_Yellow>>, <<>>, <<>>),
    << Item("Right", <<T_Yellow>>), Item("Left", <<T_Yellow>>) >>,
    << Item("Left", <<T_Yellow, <<" ","y","e","l","l","o","w"," ">> >>) >> }

BlockConstraints ==
  { MainBlockConstraints(T_Odd),
    << Item("Parity", << <<" ","e","v","e","n">>, T_Odd >>) >> }

ColumnEntries == {Entry("LA 001", c) : c \in ColumnConstraints}

BlockEntries == {Entry("CC 101", c) : c \in BlockConstraints}

(* room_constraints: no room, one room, or a column and a block room in    *)
(* either order.                                                           *)
ConstraintSpecs ==
  {<<>>}
    \cup {<<e>> : e \in ColumnEntries \cup BlockEntries}
    \cup {<<c, b>> : c \in ColumnEntries, b \in BlockEntries}
    \cup {<<b, c>> : c \in ColumnEntries, b \in BlockEntries}

assignment_modes == {RandomOrder, SequentialOrder}

----------------------------------------------------------------------------
(* The state of one call of allocate_seats. *)

VARIABLES
  student_file,        \* the roster as uploaded: columns and rows
  seats_la_lc_lh,      \* the column seat inventory as uploaded
  seats_cc_kr,         \* the block seat inventory as uploaded
  room_constraints,    \* the caller's constraints, room by room
  assignment_mode,
  pc,                  \* "read", "order", "load", "loop", "rejected", "done"
  df_students,
  df_seats_la_lc_lh,
  df_seats_cc_kr,
  allocated_seats,     \* the batches appended so far
  remaining_students,  \* the pool
  pending,             \* the loop iterations still to run, in order
  messages,            \* what st.error and st.warning have shown
  ret                  \* what allocate_seats returned

inputs ==
  <<student_file, seats_la_lc_lh, seats_cc_kr, room_constraints, assignment_mode>>

vars ==
  <<student_file, seats_la_lc_lh, seats_cc_kr, room_constraints, assignment_mode,
    pc, df_students, df_seats_la_lc_lh, df_seats_cc_kr, allocated_seats,
    remaining_students, pending, messages, ret>>

Pending == [kind |-> "pending", rows |-> <<>>]

None == [kind |-> "None", rows |-> <<>>]

Table(df) == [kind |-> "table", rows |-> df]

ColumnsError ==
  [level |-> "error", what |-> "columns", room |-> "", values |-> <<>>]

ExceptionError ==
  [level |-> "error", what |-> "exception", room |-> "", values |-> <<>>]

SkipWarning(room, parity_list) ==
  [level |-> "warning", what |-> "skip", room |-> room, values |-> parity_list]

Start(file, seats, constraints_by_room, mode) ==
  /\ student_file = file
  /\ seats_la_lc_lh = ColumnFile(seats)
  /\ seats_cc_kr = BlockFile(seats)
  /\ room_constraints = constraints_by_room
  /\ assignment_mode = mode
  /\ pc = "read"
  /\ df_students = <<>>
  /\ df_seats_la_lc_lh = <<>>
  /\ df_seats_cc_kr = <<>>
  /\ allocated_seats = <<>>
  /\ remaining_students = <<>>
  /\ pending = <<>>
  /\ messages = <<>>
  /\ ret = Pending

(* The seats and constraints the rosters with other headers are run on. *)
HeaderSeats ==
  << ColumnSeat("LA 001", "Left", <<" ","Y","e","l","l","o","w">>),
     BlockSeat("CC 101", <<"O","d","d"," ">>) >>

HeaderConstraints ==
  << Entry("LA 001", MainColumnConstraints(<<T_Yellow>>, <<>>, <<T_Yellow>>)),
     Entry("CC 101", MainBlockConstraints(T_Odd)) >>

InitAllocation ==
  \E rolls \in Rosters, seats \in SeatLists,
     constraints_by_room \in ConstraintSpecs, mode \in assignment_modes :
       Start(StudentFile(T_RollNo, T_Name, FALSE, rolls),
             seats, constraints_by_room, mode)

InitHeaders ==
  \E roll_header \in RollHeaders, name_header \in NameHeaders,
     swapped \in BOOLEAN, rolls \in Rosters, mode \in assignment_modes :
       Start(StudentFile(roll_header, name_header, swapped, rolls),
             HeaderSeats, HeaderConstraints, mode)

Init == InitAllocation \/ InitHeaders

----------------------------------------------------------------------------
(* The steps of allocate_seats. *)

(* Lines 33-53, the required columns missing: st.error, return None. *)
RejectStudents ==
  /\ pc = "read"
  /\ ~HasRequiredColumns(RenamedColumns(student_file.columns))
  /\ messages' = Append(messages, ColumnsError)
  /\ ret' = None
  /\ pc' = "rejected"
  /\ UNCHANGED <<inputs, df_students, df_seats_la_lc_lh, df_seats_cc_kr,
                 allocated_seats, remaining_students, pending>>

(* Lines 33-53, the required columns present. *)
ReadStudents ==
  /\ pc = "read"
  /\ HasRequiredColumns(RenamedColumns(student_file.columns))
  /\ df_students' = ReadRoster(student_file)
  /\ pc' = "order"
  /\ UNCHANGED <<inputs, df_seats_la_lc_lh, df_seats_cc_kr, allocated_seats,
                 remaining_students, pending, messages, ret>>

(* Lines 55-59. *)
OrderStudents ==
  /\ pc = "order"
  /\ df_students' = OrderedStudents(df_students, assignment_mode)
  /\ pc' = "load"
  /\ UNCHANGED <<inputs, df_seats_la_lc_lh, df_seats_cc_kr, allocated_seats,
                 remaining_students, pending, messages, ret>>

(* Lines 61-68. *)
LoadSeats ==
  /\ pc = "load"
  /\ df_seats_la_lc_lh' = NormalizeColor(seats_la_lc_lh)
  /\ df_seats_cc_kr' = NormalizeParity(seats_cc_kr)
  /\ allocated_seats' = <<>>
  /\ remaining_students' = df_students
  /\ pending' = Iterations(room_constraints)
  /\ pc' = "loop"
  /\ UNCHANGED <<inputs, df_students, messages, ret>>

HasNext == pending # <<>>

Current == Head(pending)

(* Lines 84-91 and 104-111. *)
Assign(valid_seats, room) ==
  LET num_seats == NumSeats(valid_seats, remaining_students)
  IN  /\ allocated_seats' =
           Append(allocated_seats,
                  AssignedStudents(remaining_students, valid_seats, room, num_seats))
      /\ remaining_students' = RemainingAfter(remaining_students, num_seats)

(* Lines 73-82: no seat of the colour, continue. *)
ColumnSkip ==
  /\ pc = "loop"
  /\ HasNext
  /\ LET current == Current
     IN  /\ current.kind = "column"
         /\ ValidColumnSeats(df_seats_la_lc_lh, current.room, current.position,
                             current.color) = <<>>
  /\ pending' = Tail(pending)
  /\ UNCHANGED <<inputs, pc, df_students, df_seats_la_lc_lh, df_seats_cc_kr,
                 allocated_seats, remaining_students, messages, ret>>

(* Lines 73-91. *)
ColumnAssign ==
  /\ pc = "loop"
  /\ HasNext
  /\ LET current == Current
     IN  /\ current.kind = "column"
         /\ LET valid_seats == ValidColumnSeats(df_seats_la_lc_lh, current.room,
                                                current.position, current.color)
            IN  /\ valid_seats # <<>>
                /\ Assign(valid_seats, current.room)
  /\ pending' = Tail(pending)
  /\ UNCHANGED <<inputs, pc, df_students, df_seats_la_lc_lh, df_seats_cc_kr,
                 messages, ret>>

(* Lines 93-102: no seat of the parities, st.warning, continue. *)
BlockSkip ==
  /\ pc = "loop"
  /\ HasNext
  /\ LET current == Current
     IN  /\ current.kind = "block"
         /\ ValidBlockSeats(df_seats_cc_kr, current.room, current.parity_list) = <<>>
         /\ messages' = Append(messages, SkipWarning(current.room, current.parity_list))
  /\ pending' = Tail(pending)
  /\ UNCHANGED <<inputs, pc, df_students, df_seats_la_lc_lh, df_seats_cc_kr,
                 allocated_seats, remaining_students, ret>>

(* Lines 93-111. *)
BlockAssign ==
  /\ pc = "loop"
  /\ HasNext
  /\ LET current == Current
     IN  /\ current.kind = "block"
         /\ LET valid_seats == ValidBlockSeats(df_seats_cc_kr, current.room,
                                               current.parity_list)
            IN  /\ valid_seats # <<>>
                /\ Assign(valid_seats, current.room)
  /\ pending' = Tail(pending)
  /\ UNCHANGED <<inputs, pc, df_students, df_seats_la_lc_lh, df_seats_cc_kr,
                 messages, ret>>

(* Line 113 with no batch: pd.concat raises, lines 122-124 return None. *)
ConcatRaises ==
  /\ pc = "loop"
  /\ ~HasNext
  /\ allocated_seats = <<>>
  /\ messages' = Append(messages, ExceptionError)
  /\ ret' = None
  /\ pc' = "done"
  /\ UNCHANGED <<inputs, df_students, df_seats_la_lc_lh, df_seats_cc_kr,
                 allocated_seats, remaining_students, pending>>

(* Lines 113-120. *)
ReturnTable ==
  /\ pc = "loop"
  /\ ~HasNext
  /\ allocated_seats # <<>>
  /\ \E df_final \in SortValues(AsTypeStr(Concat(allocated_seats))) :
       ret' = Table(df_final)
  /\ pc' = "done"
  /\ UNCHANGED <<inputs, df_students, df_seats_la_lc_lh, df_seats_cc_kr,
                 allocated_seats, remaining_students, pending, messages>>

Next ==
  \/ RejectStudents
  \/ ReadStudents
  \/ OrderStudents
  \/ LoadSeats
  \/ ColumnSkip
  \/ ColumnAssign
  \/ BlockSkip
  \/ BlockAssign
  \/ ConcatRaises
  \/ ReturnTable

Spec == Init /\ [][Next]_vars

----------------------------------------------------------------------------
(* What the properties below speak of. *)

(* The accumulators exist: the loop is running or has run. *)
Running == pc \in {"loop", "done"}

Returned == pc = "done" /\ ret.kind = "table"

(* The records accumulated for the output, in the order they were made. *)
Allocated == Flatten(allocated_seats)

(* The loop iterations that have run, in order. *)
Performed ==
  LET all == Iterations(room_constraints)
  IN  SubSeq(all, 1, Len(all) - Len(pending))

(* The seats an iteration's query matches in the loaded inventories. *)
Matching(q) ==
  IF q.kind = "column"
  THEN ValidColumnSeats(df_seats_la_lc_lh, q.room, q.position, q.color)
  ELSE ValidBlockSeats(df_seats_cc_kr, q.room, q.parity_list)

(* The constraints the caller gave for a room. *)
ConstraintsOf(room) ==
  LET at == {e \in 1..Len(room_constraints) : room_constraints[e].room = room}
  IN  room_constraints[CHOOSE e \in at : TRUE].constraints

----------------------------------------------------------------------------
(* C1: no seat reuse.  Every (room, seat number) pair appears in at most   *)
(* one of the records accumulated for the output, and in at most one row   *)
(* of the returned table.                                                  *)
C1_NoSeatReuse ==
  /\ \A a, b \in 1..Len(Allocated) :
       (Allocated[a].Room = Allocated[b].Room
          /\ Allocated[a].SeatNumber = Allocated[b].SeatNumber) => a = b
  /\ Returned =>
       \A a, b \in 1..Len(ret.rows) :
         (ret.rows[a].Room = ret.rows[b].Room
            /\ ret.rows[a].SeatNumber = ret.rows[b].SeatNumber) => a = b

----------------------------------------------------------------------------
(* C2: conservation.  While the loop runs and after it, the records        *)
(* accumulated plus the students still in the pool are as many as the      *)
(* rows of the roster, and every student of the ordered roster is in       *)
(* exactly one of the two, exactly once.                                   *)
Occurrences(rows, student) ==
  Cardinality({r \in 1..Len(rows) :
                 /\ rows[r].index = student.index
                 /\ rows[r].RollNo = student.RollNo
                 /\ rows[r].Name = student.Name})

C2_Conservation ==
  Running =>
    /\ Len(Allocated) + Len(remaining_students) = Len(student_file.rows)
    /\ Len(df_students) = Len(student_file.rows)
    /\ \A s \in 1..Len(df_students) :
         Occurrences(Allocated, df_students[s])
           + Occurrences(remaining_students, df_students[s]) = 1
    /\ Returned => Len(ret.rows) = Len(Allocated)

(* Some students seated and some left over at the end. *)
C2_Witness ==
  /\ pc = "done"
  /\ Len(Allocated) >= 1
  /\ Len(remaining_students) >= 1

----------------------------------------------------------------------------
(* C3: a run over an accepted roster never ends in the failure outcome     *)
(* because entries match no seat: it returns a table, which is empty with  *)
(* the whole roster left over when nothing was assigned.                   *)
C3_ZeroMatchNeverAborts ==
  pc = "done" =>
    /\ ret.kind = "table"
    /\ Allocated = <<>> => (ret.rows = <<>> /\ remaining_students = df_students)

----------------------------------------------------------------------------
(* C4: leftover students are surfaced.  When the run returns its result    *)
(* with students still in the pool, every one of them is named in what     *)
(* the caller receives.                                                    *)
DeliveredNames == {ret.rows[r].Name : r \in 1..Len(ret.rows)}

C4_LeftoverSurfaced ==
  Returned =>
    \A s \in 1..Len(remaining_students) :
      remaining_students[s].Name \in DeliveredNames

----------------------------------------------------------------------------
(* C5: skip notices are complete.  The skip notices recorded so far are,   *)
(* in order, one for every iteration run so far whose query matched no     *)
(* seat, each naming the room and the filter values asked for.             *)
IsSkipNotice(m) == m.what = "skip"

MatchesNothing(q) == Matching(q) = <<>>

FilterValues(q) ==
  IF q.kind = "column" THEN <<StripLower(q.color)>> ELSE q.parity_list

C5_SkipNoticesComplete ==
  Running =>
    LET notices == SelectSeq(messages, IsSkipNotice)
        skipped == SelectSeq(Performed, MatchesNothing)
    IN  /\ Len(notices) = Len(skipped)
        /\ \A n \in 1..Len(notices) :
             /\ notices[n].room = skipped[n].room
             /\ notices[n].values = FilterValues(skipped[n])

----------------------------------------------------------------------------
(* C6: filter correctness.  Every record of a column room carries a seat   *)
(* of that room in the column inventory whose position is a key of the     *)
(* room's constraints and whose trimmed, case-folded colour is one of the  *)
(* trimmed, case-folded colours asked for that position; every record of   *)
(* a block room carries a seat of that room in the block inventory whose   *)
(* trimmed, case-folded parity is one of the parities asked.               *)
ColumnRecordOk(row) ==
  \E s \in 1..Len(seats_la_lc_lh) :
    LET seat == seats_la_lc_lh[s]
        items == ConstraintsOf(row.Room)
    IN  /\ seat.SeatNumber = row.SeatNumber
        /\ seat.RoomNumber = row.Room
        /\ \E p \in 1..Len(items) :
             /\ items[p].key = seat.Position
             /\ \E c \in 1..Len(items[p].values) :
                  StripLower(items[p].values[c]) = StripLower(seat.Color)

BlockRecordOk(row) ==
  \E s \in 1..Len(seats_cc_kr) :
    LET seat == seats_cc_kr[s]
        asked == GetParity(ConstraintsOf(row.Room))
    IN  /\ seat.SeatNumber = row.SeatNumber
        /\ seat.RoomNumber = row.Room
        /\ \E p \in 1..Len(asked) :
             StripLower(asked[p]) = StripLower(seat.Parity)

C6_FilterCorrectness ==
  Running =>
    \A r \in 1..Len(Allocated) :
      IF IsColumnRoom(Allocated[r].Room)
      THEN ColumnRecordOk(Allocated[r])
      ELSE BlockRecordOk(Allocated[r])

(* A column seat whose colour matches only after trimming and case         *)
(* folding, and a block seat, have both been assigned.                     *)
C6_Witness ==
  /\ pc = "done"
  /\ \E r \in 1..Len(Allocated) :
       /\ IsColumnRoom(Allocated[r].Room)
       /\ \E s \in 1..Len(seats_la_lc_lh) :
            /\ seats_la_lc_lh[s].SeatNumber = Allocated[r].SeatNumber
            /\ seats_la_lc_lh[s].Color = <<" ","Y","e","l","l","o","w">>
  /\ \E r \in 1..Len(Allocated) : IsBlockRoom(Allocated[r].Room)

----------------------------------------------------------------------------
(* C7 as claimed: the rows of the returned table are in the order the      *)
(* batches were produced, no sort by roll number having been asked for     *)
(* (allocate_seats takes no such request).                                 *)
C7_BatchOrder ==
  Returned => ret.rows = AsTypeStr(Concat(allocated_seats))

(* C7 as amended: the returned table always holds the accumulated records  *)
(* sorted by roll number compared as text: each row's roll number is at    *)
(* most the next row's in text order, and the rows are the accumulated     *)
(* records, each as often as it was accumulated.                           *)
Count(rows, row) == Cardinality({r \in 1..Len(rows) : rows[r] = row})

C7_SortedByRollNoText ==
  Returned =>
    LET batches == AsTypeStr(Concat(allocated_seats))
    IN  /\ \A r \in 1..Len(ret.rows) - 1 :
             TextLeq(ret.rows[r].RollNo, ret.rows[r + 1].RollNo)
        /\ Len(ret.rows) = Len(batches)
        /\ \A r \in 1..Len(batches) :
             Count(ret.rows, batches[r]) = Count(batches, batches[r])

(* Roll number 2 was seated before roll number 10 and the table lists 10   *)
(* first: text order, neither batch order nor numeric order.               *)
C7_Witness ==
  /\ Returned
  /\ Len(Allocated) = 2
  /\ Allocated[1].RollNo = 2
  /\ Allocated[2].RollNo = 10
  /\ ret.rows[1].RollNo = <<"1", "0">>
  /\ ret.rows[2].RollNo = <<"2">>

----------------------------------------------------------------------------
(* C8: the input-schema error.  A roster with no column whose trimmed,     *)
(* case-folded header is "roll no" or "roll", or none whose header is      *)
(* "name", is rejected: None is returned, the error is shown, no student   *)
(* is assigned and no seat is read.  A roster that has both is never       *)
(* rejected and is read exactly as the same rows under the headers         *)
(* "Roll No" and "Name".                                                   *)
IsRollHeader(h) == StripLower(h) \in {T_roll_no, T_roll}

IsNameHeader(h) == StripLower(h) = T_name

HasRollAndName(columns) ==
  /\ \E i \in 1..Len(columns) : IsRollHeader(columns[i])
  /\ \E i \in 1..Len(columns) : IsNameHeader(columns[i])

CanonicalFile(file) ==
  [columns |-> [i \in 1..Len(file.columns) |->
                  IF IsRollHeader(file.columns[i]) THEN T_RollNo
                  ELSE IF IsNameHeader(file.columns[i]) THEN T_Name
                  ELSE file.columns[i]],
   rows    |-> file.rows]

C8_SchemaError ==
  pc # "read" =>
    IF HasRollAndName(student_file.columns)
    THEN /\ pc # "rejected"
         /\ pc = "order" => df_students = ReadRoster(CanonicalFile(student_file))
         /\ Running => Len(Allocated) + Len(remaining_students) = Len(student_file.rows)
    ELSE /\ pc = "rejected"
         /\ ret = None
         /\ messages = <<ColumnsError>>
         /\ allocated_seats = <<>>
         /\ remaining_students = <<>>
         /\ df_seats_la_lc_lh = <<>>
         /\ df_seats_cc_kr = <<>>

(* A roster of students with a name column and no roll-number column has   *)
(* been rejected.                                                          *)
C8_Witness ==
  /\ pc = "rejected"
  /\ Len(student_file.rows) >= 1
  /\ \E i \in 1..Len(student_file.columns) : IsNameHeader(student_file.columns[i])
  /\ ~\E i \in 1..Len(student_file.columns) : IsRollHeader(student_file.columns[i])

----------------------------------------------------------------------------
(* C9: the min rule.  An iteration whose query matches seats appends one   *)
(* batch of k records, k the smaller of the number of matching seats and   *)
(* the size of the pool: the i-th record is the i-th student of the pool   *)
(* with the i-th matching seat, in inventory order, and the pool loses     *)
(* exactly its first k students.  Hence, in sequential order, the records  *)
(* accumulated are the students of the roster in roster order.             *)
C9_Step ==
  (pc = "loop" /\ pending # <<>> /\ pending' = Tail(pending)
     /\ Matching(Head(pending)) # <<>>) =>
    LET valid == Matching(Head(pending))
        k == IF Len(valid) <= Len(remaining_students)
             THEN Len(valid) ELSE Len(remaining_students)
        batch == allocated_seats'[Len(allocated_seats')]
    IN  /\ Len(allocated_seats') = Len(allocated_seats) + 1
        /\ SubSeq(allocated_seats', 1, Len(allocated_seats)) = allocated_seats
        /\ Len(batch) = k
        /\ \A i \in 1..k :
             /\ batch[i].index = remaining_students[i].index
             /\ batch[i].RollNo = remaining_students[i].RollNo
             /\ batch[i].Name = remaining_students[i].Name
             /\ batch[i].SeatNumber = valid[i].SeatNumber
             /\ batch[i].Room = Head(pending).room
             /\ batch[i].Signature = ""
        /\ Len(remaining_students') = Len(remaining_students) - k
        /\ \A i \in 1..Len(remaining_students') :
             remaining_students'[i] = remaining_students[k + i]

C9_RosterOrder ==
  (Running /\ assignment_mode = SequentialOrder) =>
    \A r \in 1..Len(Allocated) :
      /\ Allocated[r].RollNo = ReadRoster(student_file)[r].RollNo
      /\ Allocated[r].Name = ReadRoster(student_file)[r].Name

----------------------------------------------------------------------------
(* C10: the order of the queries inside a column room. *)

SameColumnRoom(a, b) == a.room = b.room /\ a.kind = "column" /\ b.kind = "column"

CanonicalIndex(position) ==
  CASE position = "Left" -> 1
    [] position = "Middle" -> 2
    [] position = "Right" -> 3
    [] OTHER -> 4

SeatOf(row) ==
  seats_la_lc_lh[CHOOSE s \in 1..Len(seats_la_lc_lh) :
                   seats_la_lc_lh[s].SeatNumber = row.SeatNumber]

(* C10 as claimed: whatever the order of the keys in the caller's mapping, *)
(* the positions of a column room are queried Left, then Middle, then      *)
(* Right, so no record of the room with a Middle or Right seat precedes    *)
(* one with a Left seat.                                                   *)
C10_CanonicalPositionOrder ==
  /\ pc = "loop" =>
       \A a, b \in 1..Len(pending) :
         (a < b /\ SameColumnRoom(pending[a], pending[b])) =>
           CanonicalIndex(pending[a].position) <= CanonicalIndex(pending[b].position)
  /\ Running =>
       \A a, b \in 1..Len(Allocated) :
         (a < b /\ IsColumnRoom(Allocated[a].Room)
            /\ Allocated[a].Room = Allocated[b].Room) =>
           CanonicalIndex(SeatOf(Allocated[a]).Position)
             <= CanonicalIndex(SeatOf(Allocated[b]).Position)

(* The queries in the order of the caller's mappings. *)
RECURSIVE CallerColorQueries(_, _, _)
CallerColorQueries(room, position, colors) ==
  IF colors = <<>> THEN <<>>
  ELSE <<ColumnIteration(room, position, Head(colors))>>
         \o CallerColorQueries(room, position, Tail(colors))

RECURSIVE CallerPositionQueries(_, _)
CallerPositionQueries(room, items) ==
  IF items = <<>> THEN <<>>
  ELSE CallerColorQueries(room, Head(items).key, Head(items).values)
         \o CallerPositionQueries(room, Tail(items))

RECURSIVE CallerQueries(_)
CallerQueries(entries) ==
  IF entries = <<>> THEN <<>>
  ELSE (IF IsColumnRoom(Head(entries).room)
        THEN CallerPositionQueries(Head(entries).room, Head(entries).constraints)
        ELSE <<BlockIteration(Head(entries).room,
                              ParityList(GetParity(Head(entries).constraints)))>>)
         \o CallerQueries(Tail(entries))

IsSuffix(s, t) ==
  /\ Len(s) <= Len(t)
  /\ s = SubSeq(t, Len(t) - Len(s) + 1, Len(t))

(* Where a seat's query stands in the caller's mapping of its room: the    *)
(* place of its position among the keys, then the place of the first       *)
(* colour asked for that position that its colour matches.                 *)
KeyIndex(room, position) ==
  LET items == ConstraintsOf(room)
  IN  CHOOSE p \in 1..Len(items) : items[p].key = position

ColorIndex(room, seat) ==
  LET colors == ConstraintsOf(room)[KeyIndex(room, seat.Position)].values
      at == {c \in 1..Len(colors) : StripLower(colors[c]) = StripLower(seat.Color)}
  IN  CHOOSE c \in at : \A d \in at : c <= d

IsAsked(room, seat) ==
  LET items == ConstraintsOf(room)
  IN  /\ seat.RoomNumber = room
      /\ \E p \in 1..Len(items) :
           /\ items[p].key = seat.Position
           /\ \E c \in 1..Len(items[p].values) :
                StripLower(items[p].values[c]) = StripLower(seat.Color)

Before(room, s, t) ==
  \/ KeyIndex(room, s.Position) < KeyIndex(room, t.Position)
  \/ /\ KeyIndex(room, s.Position) = KeyIndex(room, t.Position)
     /\ ColorIndex(room, s) < ColorIndex(room, t)

(* C10 as amended: the positions of a column room are queried in the       *)
(* order of the keys of the caller's mapping (Left, Middle, Right for a    *)
(* mapping built by main), each colour of a position in the caller's       *)
(* order; a seat whose query comes later in that order is never assigned   *)
(* before a seat whose query comes earlier, and when it is assigned every  *)
(* seat of the earlier queries has been assigned before it.                *)
C10_CallerPositionOrder ==
  /\ pc = "loop" => IsSuffix(pending, CallerQueries(room_constraints))
  /\ Running =>
       \A b \in 1..Len(Allocated) :
         IsColumnRoom(Allocated[b].Room) =>
           LET room == Allocated[b].Room
               seat == SeatOf(Allocated[b])
           IN  /\ \A a \in 1..b - 1 :
                    Allocated[a].Room = room =>
                      ~Before(room, seat, SeatOf(Allocated[a]))
               /\ \A s \in 1..Len(seats_la_lc_lh) :
                    (IsAsked(room, seats_la_lc_lh[s])
                       /\ Before(room, seats_la_lc_lh[s], seat)) =>
                      \E a \in 1..b - 1 :
                        /\ Allocated[a].Room = room
                        /\ Allocated[a].SeatNumber = seats_la_lc_lh[s].SeatNumber

(* The caller listed Right before Left, and the first student of the pool  *)
(* has the Right seat, the second the Left seat.                           *)
C10_Witness ==
  /\ pc = "done"
  /\ Len(Allocated) = 2
  /\ Allocated[1].Room = "LA 001"
  /\ Allocated[2].Room = "LA 001"
  /\ SeatOf(Allocated[1]).Position = "Right"
  /\ SeatOf(Allocated[2]).Position = "Left"

====
